---- MODULE Spec2Model ----
(***************************************************************************)
(* Model of two pieces of glue code of the OCaml tree:                     *)
(*   otherlibs/unix/wasi_unavailable.c  - the always-failing Unix stubs    *)
(*   testsuite/cross/link.c             - init(), the runtime bootstrap    *)
(***************************************************************************)
EXTENDS Naturals, Integers, Sequences, FiniteSets, TLC

VARIABLES pc, stub, args, exn, last, os, glob, running,
          lpc, platform, target, buf, rl, gp, progname, argv, ncalls, seen

svars == <<pc, stub, args, exn, last, os, glob, running>>
lvars == <<lpc, platform, target, buf, rl, gp, progname, argv, ncalls, seen>>
vars  == <<pc, stub, args, exn, last, os, glob, running,
           lpc, platform, target, buf, rl, gp, progname, argv, ncalls, seen>>

(***************************************************************************)
(* Bounds                                                                  *)
(***************************************************************************)
\* number of concurrent execution contexts calling stubs
NCtx == 2
\* OCaml argument values are drawn from 0..MaxArg
MaxArg == 1

\* PATH_MAX of <limits.h>, scaled down
PATH_MAX == 3

Ctx == 1..NCtx
\* The context of the main program.
Main == CHOOSE c \in Ctx : \A d \in Ctx : c <= d
Values == 0..MaxArg

(***************************************************************************)
(* wasi_unavailable.c                                                      *)
(***************************************************************************)

\* Result slot of a context that has no call outcome.
NoResult == [tag |-> "none", kind |-> "", msg |-> ""]

\* caml/fail.h: caml_invalid_argument raises Invalid_argument carrying msg
\* and does not return to its caller.
caml_invalid_argument(msg) ==
  [tag |-> "raised", kind |-> "Invalid_argument", msg |-> msg]

\* A stub body works on st = [os, glob, result]: the process state, the
\* static storage of the translation unit, and the outcome of the call.
\* a is the tuple <<arg1, ..., argN>>.
\* Variant: the body sets the file creation mask from arg1 before failing.
UNAVAILABLE1_umask(cname, camlname, a, st) ==
  [st EXCEPT !.os.umask = a[1] + 1,
             !.result = caml_invalid_argument(camlname \o " not available")]

UNAVAILABLE1(cname, camlname, a, st) ==
  [st EXCEPT !.result = caml_invalid_argument(camlname \o " not available")]

\* Variant: the message depends on arg1.
UNAVAILABLE2_readsarg(cname, camlname, a, st) ==
  [st EXCEPT !.result = caml_invalid_argument(
       camlname \o (IF a[1] = 0 THEN " not available" ELSE " not supported"))]

\* Variant: the body raises Failure instead of Invalid_argument.
UNAVAILABLE2_failwith(cname, camlname, a, st) ==
  [st EXCEPT !.result = [tag |-> "raised", kind |-> "Failure",
                         msg |-> camlname \o " not available"]]

\* Variant: the message is built once in a static buffer shared by all stubs.
UNAVAILABLE2_static(cname, camlname, a, st) ==
  LET m == IF st.glob = "" THEN camlname \o " not available" ELSE st.glob IN
  [st EXCEPT !.glob = m, !.result = caml_invalid_argument(m)]

UNAVAILABLE2(cname, camlname, a, st) ==
  [st EXCEPT !.result = caml_invalid_argument(camlname \o " not available")]

UNAVAILABLE3(cname, camlname, a, st) ==
  [st EXCEPT !.result = caml_invalid_argument(camlname \o " not vailable")]

UNAVAILABLE4(cname, camlname, a, st) ==
  [st EXCEPT !.result = caml_invalid_argument(camlname \o " not available")]

\* Variant: the body returns a value instead of failing.
UNAVAILABLE5_returns(cname, camlname, a, st) ==
  [st EXCEPT !.result = [tag |-> "returned", kind |-> "", msg |-> ""]]

\* Variant: the suffix of UNAVAILABLE5 is misspelt.
UNAVAILABLE5_typo(cname, camlname, a, st) ==
  [st EXCEPT !.result = caml_invalid_argument(camlname \o " not vailable")]

UNAVAILABLE5(cname, camlname, a, st) ==
  [st EXCEPT !.result = caml_invalid_argument(camlname \o " not available")]

\* One entry per macro instantiation, in file order.
Catalog ==
  << [macro |-> 1, cname |-> "unix_wait",        camlname |-> "Unix.wait"],
     [macro |-> 2, cname |-> "unix_waitpid",     camlname |-> "Unix.waitpid"],
     [macro |-> 2, cname |-> "unix_sigprocmask", camlname |-> "Unix.sigprocmask"],
     [macro |-> 1, cname |-> "unix_sigpending",  camlname |-> "Unix.sigpending"],
     [macro |-> 1, cname |-> "unix_sigsuspend",  camlname |-> "Unix.sigsuspend"],
     [macro |-> 2, cname |-> "unix_kill",        camlname |-> "Unix.kill"],
     [macro |-> 1, cname |-> "unix_getpwnam",    camlname |-> "Unix.getpwnam"],
     [macro |-> 1, cname |-> "unix_getpwuid",    camlname |-> "Unix.getpwuid"],
     [macro |-> 1, cname |-> "unix_getgrnam",    camlname |-> "Unix.getgrnam"],
     [macro |-> 1, cname |-> "unix_getgrgid",    camlname |-> "Unix.getgrgid"],
     [macro |-> 1, cname |-> "unix_alarm",       camlname |-> "Unix.alarm"],
     [macro |-> 2, cname |-> "unix_chmod",       camlname |-> "Unix.chmod"],
     [macro |-> 3, cname |-> "unix_chown",       camlname |-> "Unix.chown"],
     [macro |-> 1, cname |-> "unix_chroot",      camlname |-> "Unix.chroot"],
     [macro |-> 2, cname |-> "unix_dup",         camlname |-> "Unix.dup"],
     [macro |-> 3, cname |-> "unix_dup2",        camlname |-> "Unix.dup2"],
     [macro |-> 2, cname |-> "unix_execv",       camlname |-> "Unix.execv"],
     [macro |-> 3, cname |-> "unix_execve",      camlname |-> "Unix.execve"],
     [macro |-> 2, cname |-> "unix_execvp",      camlname |-> "Unix.execvp"],
     [macro |-> 3, cname |-> "unix_execvpe",     camlname |-> "Unix.execvpe"],
     [macro |-> 1, cname |-> "unix_fork",        camlname |-> "Unix.fork"],
     [macro |-> 1, cname |-> "unix_getegid",     camlname |-> "Unix.getegid"],
     [macro |-> 1, cname |-> "unix_geteuid",     camlname |-> "Unix.geteuid"],
     [macro |-> 1, cname |-> "unix_getgid",      camlname |-> "Unix.getgid"],
     [macro |-> 1, cname |-> "unix_getlogin",    camlname |-> "Unix.getlogin"],
     [macro |-> 1, cname |-> "unix_getuid",      camlname |-> "Unix.getuid"],
     [macro |-> 1, cname |-> "unix_gethostname", camlname |-> "Unix.gethostname"],
     [macro |-> 1, cname |-> "unix_getpid",      camlname |-> "Unix.getpid"],
     [macro |-> 1, cname |-> "unix_getppid",     camlname |-> "Unix.getppid"],
     [macro |-> 2, cname |-> "unix_mkfifo",      camlname |-> "Unix.mkfifo"],
     [macro |-> 2, cname |-> "unix_pipe",        camlname |-> "Unix.pipe"],
     [macro |-> 1, cname |-> "unix_setgid",      camlname |-> "Unix.setgid"],
     [macro |-> 1, cname |-> "unix_setsid",      camlname |-> "Unix.setsid"],
     [macro |-> 1, cname |-> "unix_setuid",      camlname |-> "Unix.setuid"],
     [macro |-> 5, cname |-> "unix_spawn",       camlname |-> "Unix.spawn"],
     [macro |-> 1, cname |-> "unix_umask",       camlname |-> "Unix.umask"] >>

Stubs == 1..Len(Catalog)

\* Variant: unix_dup is generated with the one-argument macro.
Arity_dup1(i) == IF Catalog[i].cname = "unix_dup" THEN 1 ELSE Catalog[i].macro

\* The parameter list of a stub is the one of the macro that generated it.
Arity(i) == Catalog[i].macro

\* Calling the i-th stub with argument tuple a in machine state st.
Stub(i, a, st) ==
  LET e == Catalog[i]
      n == Arity(i) IN
  CASE n = 1 -> UNAVAILABLE1(e.cname, e.camlname, a, st)
    [] n = 2 -> UNAVAILABLE2(e.cname, e.camlname, a, st)
    [] n = 3 -> UNAVAILABLE3(e.cname, e.camlname, a, st)
    [] n = 4 -> UNAVAILABLE4(e.cname, e.camlname, a, st)
    [] n = 5 -> UNAVAILABLE5(e.cname, e.camlname, a, st)

\* Process state a Unix primitive could touch.
InitOS ==
  [ fds     |-> {0, 1, 2},
    mode    |-> 420,
    owner   |-> <<0, 0>>,
    procs   |-> {1},
    sigmask |-> {},
    uid     |-> 0,
    gid     |-> 0,
    umask   |-> 18 ]

\* The translation unit defines no object with static storage.
InitGlob == ""

\* No call has been handled yet.
NoLast == [stub |-> 0, args |-> << >>, exn |-> NoResult]

InitStubs ==
  /\ last    = NoLast
  /\ pc      = [c \in Ctx |-> "idle"]
  /\ stub    = [c \in Ctx |-> 0]
  /\ args    = [c \in Ctx |-> << >>]
  /\ exn     = [c \in Ctx |-> NoResult]
  /\ os      = InitOS
  /\ glob    = InitGlob
  /\ running = TRUE

\* Context c calls stub i with arguments a; the whole stub body runs.
Call(c, i, a) ==
  /\ running
  /\ pc[c] = "idle"
  /\ LET st == Stub(i, a, [os |-> os, glob |-> glob, result |-> NoResult]) IN
       /\ pc'      = [pc EXCEPT ![c] = st.result.tag]
       /\ exn'     = [exn EXCEPT ![c] = st.result]
       /\ os'      = st.os
       /\ glob'    = st.glob
       /\ running' = (st.result.tag # "exit")
  /\ stub' = [stub EXCEPT ![c] = i]
  /\ args' = [args EXCEPT ![c] = a]
  /\ UNCHANGED last
  /\ UNCHANGED lvars

\* The caller of context c catches the exception and carries on.
Catch(c) ==
  /\ running
  /\ pc[c] = "raised"
  /\ pc'   = [pc EXCEPT ![c] = "idle"]
  /\ stub' = [stub EXCEPT ![c] = 0]
  /\ args' = [args EXCEPT ![c] = << >>]
  /\ exn'  = [exn EXCEPT ![c] = NoResult]
  /\ UNCHANGED <<os, glob, running>>
  /\ UNCHANGED lvars

\* A single-threaded program: the main context calls any stub with any
\* arguments ...
MainCall == \E i \in Stubs : \E a \in [1..Arity(i) -> Values] : Call(Main, i, a)

\* ... and its handler keeps the error of the call it handled.
MainHandle ==
  /\ Catch(Main)
  /\ last' = [stub |-> stub[Main], args |-> args[Main], exn |-> exn[Main]]

\* The argument tuple <<0, ..., 0>> of stub i.
Zeros(i) == [k \in 1..Arity(i) |-> 0]

\* A multi-threaded program: any context calls any stub ...
AnyCall == \E c \in Ctx : \E i \in Stubs : Call(c, i, Zeros(i))

\* ... and handles its error, at any time relative to the other contexts.
AnyHandle == \E c \in Ctx : Catch(c) /\ UNCHANGED last

(***************************************************************************)
(* link.c                                                                  *)
(***************************************************************************)
Min(a, b) == IF a <= b THEN a ELSE b

\* Bytes are character codes; 0 is NUL, 47 is '/', 97 is 'a'.
PathChars == {47, 97}
\* Values an uninitialised stack byte may hold.
StackBytes == {0, 47, 97}

\* Non-empty strings without NUL of length at most n.
Paths(n) == UNION { [1..k -> PathChars] : k \in 1..n }

\* What /proc/self/exe may point at; longer than the buffer included.
Targets == Paths(PATH_MAX + 1)

\* "/unknown/program/name"
Literal == << 47, 117, 110, 107, 110, 111, 119, 110, 47, 112, 114, 111, 103,
              114, 97, 109, 47, 110, 97, 109, 101 >>

\* The name the C library reports on __APPLE__.
ProgName == << 97 >>

\* readlink(2): copies at most bufsiz bytes of the link target into b,
\* appends no NUL, and returns the number of bytes placed in b.
readlink(t, b, bufsiz) ==
  LET n == Min(Len(t), bufsiz) IN
  [ ret |-> n,
    buf |-> [k \in 1..Len(b) |-> IF k <= n THEN t[k] ELSE b[k]] ]

\* Variant: the NULL default is not applied.
DefaultProgname_skip(p) == p

\* if (progname == NULL) progname = "/unknown/program/name";
DefaultProgname(p) == IF p = "NULL" THEN "literal" ELSE p

\* The bytes stored at the object a pointer designates.
Mem(p) ==
  CASE p = "buf"         -> buf
    [] p = "literal"     -> Literal \o <<0>>
    [] p = "getprogname" -> ProgName \o <<0>>
    [] OTHER             -> << >>

\* Reading a C string from the start of object b: the bytes before the first
\* NUL; without a NUL in b the read runs past the end of the object.
CStr(b) ==
  LET nul == {k \in 1..Len(b) : b[k] = 0} IN
  IF nul = {}
  THEN [str |-> b, overrun |-> TRUE]
  ELSE [str |-> SubSeq(b, 1, (CHOOSE k \in nul : \A j \in nul : k <= j) - 1),
        overrun |-> FALSE]

\* Bytes a read past the end of an object may pick up before it stops.
Beyond == { << >> } \cup [1..1 -> PathChars]

NoSeen == [argv0 |-> "", argv1 |-> "", name |-> << >>, overrun |-> FALSE]

InitLink ==
  /\ lpc = "entry"
  /\ platform = "unset"
  /\ target = << >>
  /\ buf = << >>
  /\ rl = 0
  /\ gp = "NULL"
  /\ progname = "NULL"
  /\ argv = << >>
  /\ ncalls = 0
  /\ seen = NoSeen

\* init() is entered: locals are allocated, buf (on __linux__ only) holds
\* whatever the stack held, progname = NULL.
LinkEntry ==
  /\ lpc = "entry"
  /\ \E pf \in {"linux", "apple", "other"} :
       /\ platform' = pf
       /\ IF pf = "linux"
          THEN \E b \in [1..PATH_MAX -> StackBytes] : buf' = b
          ELSE buf' = << >>
  /\ progname' = "NULL"
  /\ lpc' = "apple"
  /\ UNCHANGED <<target, rl, gp, argv, ncalls, seen>>
  /\ UNCHANGED svars

\* #ifdef __APPLE__  progname = (char *) getprogname();
LinkGetprogname ==
  /\ lpc = "apple"
  /\ IF platform = "apple"
     THEN \E r \in {"NULL", "getprogname"} : gp' = r /\ progname' = r
     ELSE UNCHANGED <<gp, progname>>
  /\ lpc' = "linux"
  /\ UNCHANGED <<platform, target, buf, rl, argv, ncalls, seen>>
  /\ UNCHANGED svars

\* #ifdef __linux__  if (readlink(...) >= 0) progname = buf;
LinkReadlink ==
  /\ lpc = "linux"
  /\ IF platform = "linux"
     THEN \/ /\ rl' = -1
             /\ UNCHANGED <<target, buf, progname>>
          \/ \E t \in Targets :
               LET r == readlink(t, buf, PATH_MAX) IN
               /\ target' = t
               /\ rl' = r.ret
               /\ buf' = r.buf
               /\ progname' = IF r.ret >= 0 THEN "buf" ELSE progname
     ELSE UNCHANGED <<target, buf, rl, progname>>
  /\ lpc' = "default"
  /\ UNCHANGED <<platform, gp, argv, ncalls, seen>>
  /\ UNCHANGED svars

\* if (progname == NULL) ...; argv[0] = progname; argv[1] = NULL;
LinkArgv ==
  /\ lpc = "default"
  /\ progname' = DefaultProgname(progname)
  /\ argv' = << DefaultProgname(progname), "NULL" >>
  /\ lpc' = "startup"
  /\ UNCHANGED <<platform, target, buf, rl, gp, ncalls, seen>>
  /\ UNCHANGED svars

\* caml_startup(argv): the runtime reads argv[0] as a C string.
LinkStartup ==
  /\ lpc = "startup"
  /\ ncalls' = ncalls + 1
  /\ LET s == CStr(Mem(argv[1])) IN
     \E x \in (IF s.overrun THEN Beyond ELSE { << >> }) :
       seen' = [argv0 |-> argv[1], argv1 |-> argv[2],
                name |-> s.str \o x, overrun |-> s.overrun]
  /\ lpc' = "done"
  /\ UNCHANGED <<platform, target, buf, rl, gp, progname, argv>>
  /\ UNCHANGED svars

Init == InitStubs /\ InitLink

Next == MainCall \/ MainHandle

Spec == Init /\ [][Next]_vars

NextConc == AnyCall \/ AnyHandle

SpecConc == Init /\ [][NextConc]_vars

NextLink == LinkEntry \/ LinkGetprogname \/ LinkReadlink \/ LinkArgv \/ LinkStartup

SpecLink == Init /\ [][NextLink]_vars

(***************************************************************************)
(* Properties                                                              *)
(***************************************************************************)
Raised(c) == pc[c] = "raised"
Entry(c) == Catalog[stub[c]]

\* The catalog of section 6 of the specification: name and arity.
SpecCatalog ==
  << <<"wait", 1>>, <<"waitpid", 2>>, <<"sigprocmask", 2>>, <<"sigpending", 1>>,
     <<"sigsuspend", 1>>, <<"kill", 2>>, <<"getpwnam", 1>>, <<"getpwuid", 1>>,
     <<"getgrnam", 1>>, <<"getgrgid", 1>>, <<"alarm", 1>>, <<"chmod", 2>>,
     <<"chown", 3>>, <<"chroot", 1>>, <<"dup", 2>>, <<"dup2", 3>>,
     <<"execv", 2>>, <<"execve", 3>>, <<"execvp", 2>>, <<"execvpe", 3>>,
     <<"fork", 1>>, <<"getegid", 1>>, <<"geteuid", 1>>, <<"getgid", 1>>,
     <<"getlogin", 1>>, <<"getuid", 1>>, <<"gethostname", 1>>, <<"getpid", 1>>,
     <<"getppid", 1>>, <<"mkfifo", 2>>, <<"pipe", 2>>, <<"setgid", 1>>,
     <<"setsid", 1>>, <<"setuid", 1>>, <<"spawn", 5>>, <<"umask", 1>> >>

\* Stub i is the shim of entry j of the specification's catalog.
Matches(i, j) ==
  /\ Catalog[i].cname = "unix_" \o SpecCatalog[j][1]
  /\ Catalog[i].camlname = "Unix." \o SpecCatalog[j][1]
  /\ Arity(i) = SpecCatalog[j][2]

\* C1: every stub call fails with the message <canonical name> followed by
\* the one fixed suffix " not available", whichever macro generated the stub.
C1_UniformSuffix ==
  \A c \in Ctx : Raised(c) => exn[c].msg = Entry(c).camlname \o " not available"

\* The entries of the specification's catalog that stub i matches.
SpecEntriesOf == [i \in Stubs |-> {j \in 1..Len(SpecCatalog) : Matches(i, j)}]

\* No C name and no canonical name is defined twice.
NoDuplicates ==
  \A i, k \in Stubs :
    i # k => /\ Catalog[i].cname # Catalog[k].cname
             /\ Catalog[i].camlname # Catalog[k].camlname

\* None missing, none extra.
SameEntries ==
  /\ Len(Catalog) = 36
  /\ Len(SpecCatalog) = 36
  /\ \A i \in Stubs : SpecEntriesOf[i] # {}
  /\ \A j \in 1..Len(SpecCatalog) : \E i \in Stubs : j \in SpecEntriesOf[i]

\* C2: the stubs defined are exactly the 36 entries of the specification's
\* catalog, each once, unix_X named "Unix.X", with the catalog's arity; a
\* call binds exactly that many arguments.
C2_CatalogExact ==
  /\ SameEntries
  /\ NoDuplicates
  /\ \A c \in Ctx : pc[c] # "idle" =>
       \E j \in SpecEntriesOf[stub[c]] : Len(args[c]) = SpecCatalog[j][2]

C2_Witness ==
  /\ Raised(Main) /\ Entry(Main).cname = "unix_dup" /\ Len(args[Main]) = 2
  /\ last.stub # 0 /\ Catalog[last.stub].cname = "unix_spawn" /\ Len(last.args) = 5

\* C3: no stub call completes normally: a context that has called a stub is
\* left with a raised error, never with a returned value.
C3_NoNormalReturn ==
  \A c \in Ctx :
    /\ pc[c] \in {"idle", "raised"}
    /\ pc[c] # "idle" => exn[c].tag = "raised"
    /\ exn[c].tag # "returned"

C3_Witness ==
  Raised(Main) /\ Entry(Main).cname = "unix_spawn" /\ exn[Main].tag = "raised"

\* C4: the failure of a stub does not depend on its arguments nor on the
\* point of the execution: a call of the stub that was called before produces
\* the same error kind and the same message.
C4_ArgumentIndependent ==
  (Raised(Main) /\ last.stub = stub[Main]) => exn[Main] = last.exn

C4_Witness ==
  /\ Raised(Main) /\ last.stub = stub[Main]
  /\ Entry(Main).cname = "unix_kill"
  /\ args[Main][1] # last.args[1]

\* C5: unix_fork (one argument) fails with "Unix.fork not available" and
\* unix_spawn (five arguments) fails with "Unix.spawn not available".
C5_ForkSpawn ==
  \A c \in Ctx : Raised(c) =>
    /\ Entry(c).cname = "unix_fork" =>
         Len(args[c]) = 1 /\ exn[c].msg = "Unix.fork not available"
    /\ Entry(c).cname = "unix_spawn" =>
         Len(args[c]) = 5 /\ exn[c].msg = "Unix.spawn not available"

C5_Witness ==
  /\ Raised(Main) /\ Entry(Main).cname = "unix_spawn"
  /\ args[Main] = <<0, 1, 0, 1, 1>>
  /\ last.stub # 0 /\ Catalog[last.stub].cname = "unix_fork"
  /\ last.exn.msg = "Unix.fork not available"

\* C6: every stub signals the same error kind, delivered to the caller as a
\* recoverable condition: the process keeps running, the caller can handle
\* the error, and once it has, it can call a stub again.
C6_OneRecoverableKind ==
  /\ running
  /\ pc[Main] # "idle" =>
       /\ exn[Main].tag = "raised"
       /\ exn[Main].kind = "Invalid_argument"
       /\ ENABLED MainHandle
  /\ last.stub # 0 => last.exn.kind = "Invalid_argument"
  /\ pc[Main] = "idle" => ENABLED Call(Main, 1, <<0>>)

C6_Witness ==
  /\ Raised(Main) /\ Arity(stub[Main]) = 2
  /\ last.stub # 0 /\ Arity(last.stub) = 3
  /\ exn[Main].kind = last.exn.kind

\* C7: stub calls change no process state and write no global variable.
C7_NoSideEffect ==
  /\ os = InitOS
  /\ glob = InitGlob

C7_Witness ==
  /\ Raised(Main) /\ Entry(Main).cname = "unix_chmod"
  /\ last.stub # 0 /\ Catalog[last.stub].cname = "unix_umask" /\ last.args[1] = 1
  /\ os.umask = 18

\* C8: under every interleaving each caller holds the error of the stub it
\* called, different stubs never yield the same message, the stubs leave no
\* shared state behind, and no call waits for another context.
C8_ConcurrentCallers ==
  /\ glob = InitGlob
  /\ \A c \in Ctx :
       /\ Raised(c) =>
            exn[c] = Stub(stub[c], args[c],
                          [os |-> InitOS, glob |-> InitGlob, result |-> NoResult]).result
       /\ pc[c] = "idle" => ENABLED Call(c, 2, <<0, 0>>)
  /\ \A c, d \in Ctx :
       (Raised(c) /\ Raised(d) /\ stub[c] # stub[d]) => exn[c].msg # exn[d].msg

C8_Witness ==
  \E c, d \in Ctx :
    /\ c # d
    /\ Raised(c) /\ Entry(c).cname = "unix_kill"
    /\ Raised(d) /\ Entry(d).cname = "unix_waitpid"
    /\ exn[c].msg = "Unix.kill not available"
    /\ exn[d].msg = "Unix.waitpid not available"

\* The pointer init() is expected to pass as argv[0].
ExpectedArgv0 ==
  IF platform = "linux" /\ rl >= 0 THEN "buf"
  ELSE IF platform = "apple" /\ gp # "NULL" THEN "getprogname"
  ELSE "literal"

\* C9: init() calls caml_startup exactly once, as its last step, with
\* argv[1] = NULL and a non-NULL argv[0]: the buffer readlink filled on
\* __linux__, the result of getprogname on __APPLE__, and the literal
\* "/unknown/program/name" in every other case.
C9_StartupArgv ==
  /\ ncalls <= 1
  /\ (ncalls = 1) <=> (lpc = "done")
  /\ lpc = "done" =>
       /\ seen.argv1 = "NULL"
       /\ seen.argv0 # "NULL"
       /\ seen.argv0 = ExpectedArgv0
       /\ seen.argv0 = "literal" => seen.name = Literal /\ ~seen.overrun
       /\ seen.argv0 = "getprogname" => seen.name = ProgName /\ ~seen.overrun
       /\ seen.argv0 = "buf" =>
            SubSeq(buf, 1, rl) = SubSeq(target, 1, rl)

C9_Witness ==
  /\ lpc = "done"
  /\ platform = "linux"
  /\ rl < 0
  /\ seen.argv0 = "literal"
  /\ ncalls = 1

\* C10: on __linux__, after a successful readlink of n bytes, the argv[0]
\* given to caml_startup is a NUL-terminated string inside buf whose content
\* is exactly the n bytes of the link target.
C10_Terminated ==
  (lpc = "done" /\ platform = "linux" /\ rl >= 0) =>
    /\ ~seen.overrun
    /\ seen.name = SubSeq(target, 1, rl)
    /\ rl < PATH_MAX
    /\ buf[rl + 1] = 0
====
